---- MODULE Spec2Model ----
(***************************************************************************)
(* Model of ehrapy's group-wise feature ranking helpers                    *)
(* (src/ehrapy/tools/_utils.py) and of the MedCAT annotation helpers       *)
(* (src/ehrapy/tools/nlp/_medcat.py).                                      *)
(*                                                                         *)
(* The helpers are independent functions over in-memory tables, so the     *)
(* module holds one specification per component:                           *)
(*   SpecSelect  _get_groups_order                                         *)
(*   SpecTester  _evaluate_categorical_features                            *)
(*   SpecStore   _save_rank_features_result, _merge_arrays, _sort_features *)
(*   SpecAdjust  _adjust_pvalues                                           *)
(*   SpecAnnot   annotate_text, add_medcat_annotation_to_obs               *)
(* Every specification leaves the variables of the others at their idle    *)
(* value, which its initial condition states.                              *)
(***************************************************************************)
EXTENDS Integers, Sequences, FiniteSets, TLC

VARIABLES
    gsel,       \* SpecSelect: the last call of _get_groups_order and its outcome
    tdata,      \* SpecTester: adata.obs[groupby] and the feature column, per observation
    tcall,      \* SpecTester: the last call of _evaluate_categorical_features and its outcome
    uns,        \* SpecStore: adata.uns[key_added], the stored result
    hist,       \* SpecStore: the save calls made so far (their arguments)
    sret,       \* SpecStore: the last operation and how it ended
    adj,        \* SpecAdjust: the last call of _adjust_pvalues and its outcome
    notes,      \* SpecAnnot: adata.obs[text_column], per row
    annots,     \* SpecAnnot: adata.uns["medcat_annotations"]
    obscols,    \* SpecAnnot: the columns add_medcat_annotation_to_obs wrote to adata.obs
    aret        \* SpecAnnot: the last operation and how it ended

vars == <<gsel, tdata, tcall, uns, hist, sret, adj, notes, annots, obscols, aret>>

selectVars == <<gsel>>
testerVars == <<tdata, tcall>>
storeVars  == <<uns, hist, sret>>
adjustVars == <<adj>>
annotVars  == <<notes, annots, obscols, aret>>

Idle == [op |-> "idle"]

\* Sequences over S of length at most n.
SeqsUpTo(S, n) == UNION {[1..k -> S] : k \in 0..n}

Range(s) == {s[i] : i \in DOMAIN s}

IsIn(x, s) == \E i \in DOMAIN s : s[i] = x

(***************************************************************************)
(* Group identifiers.  A group identifier is a Python str or int; an int   *)
(* is written by its decimal digits, so str(n) keeps the digits and        *)
(* changes the type, and an int never equals a str.                        *)
(***************************************************************************)
StrId(s) == [t |-> "str", v |-> s]
IntId(d) == [t |-> "int", v |-> d]

\* Python's str(n) (line 132); applied to a str it returns the str.
PyStr(id) == [t |-> "str", v |-> id.v]

Rest == StrId("rest")

(***************************************************************************)
(* GroupSelector: _get_groups_order (src/ehrapy/tools/_utils.py 113-140).  *)
(* groups_subset is [kind |-> "all" | "scalar" | "seq", v |-> elements].   *)
(* The two ValueErrors of the code are told apart by what they report:     *)
(* "Specify a sequence of groups" is InvalidGroupSpecification and         *)
(* "reference = ... needs to be one of groupby" is UnknownReferenceGroup.  *)
(* groups_order[0] of an empty list raises IndexError.                     *)
(***************************************************************************)
SubsetAll == [kind |-> "all", v |-> <<>>]
SubsetScalar(id) == [kind |-> "scalar", v |-> <<id>>]
SubsetSeq(s) == [kind |-> "seq", v |-> s]

Raise(e) == [err |-> e, order |-> <<>>]
Return(o) == [err |-> "none", order |-> o]

\* Lines 130-134: the explicit list, coerced when its first element is an int,
\* with the reference appended when it is not "rest" and not in the list.
Coerce(s) == IF s[1].t = "int" THEN [i \in DOMAIN s |-> PyStr(s[i])] ELSE s

AppendReference(order, reference) ==
    IF reference # Rest /\ ~IsIn(reference, order)
    THEN Append(order, reference) ELSE order

\* Lines 135-138.
ReferenceKnown(group_names, reference) ==
    reference = Rest \/ IsIn(reference, group_names)

GetGroupsOrder(groups_subset, group_names, reference) ==
    IF groups_subset.kind = "all"
    THEN IF ReferenceKnown(group_names, reference)
         THEN Return(group_names) ELSE Raise("UnknownReferenceGroup")
    ELSE IF groups_subset.kind = "scalar"
    THEN Raise("InvalidGroupSpecification")
    ELSE IF groups_subset.v = <<>>
    THEN Raise("IndexError")
    ELSE IF ReferenceKnown(group_names, reference)
         THEN Return(AppendReference(Coerce(groups_subset.v), reference))
         ELSE Raise("UnknownReferenceGroup")

(***************************************************************************)
(* SpecSelect: every call of _get_groups_order on a small universe.        *)
(***************************************************************************)
MaxSubsetLen == 2

\* The known group names (adata.obs[groupby].cat.categories): always strings.
SelGroupNames == <<StrId("1"), StrId("A"), StrId("B")>>

\* What a caller may put in groups: known names, an unknown name, integers.
SelIds == {StrId("1"), StrId("A"), StrId("Z"), IntId("1"), IntId("2")}

SelReferences == {Rest, StrId("1"), StrId("A"), StrId("B"), StrId("Z")}

SelSubsets ==
    {SubsetAll}
    \cup {SubsetScalar(id) : id \in {StrId("A"), IntId("1")}}
    \cup {SubsetSeq(s) : s \in SeqsUpTo(SelIds, MaxSubsetLen)}

SelectInit ==
    /\ \E s \in SelSubsets, r \in SelReferences :
          gsel = [op |-> "args", subset |-> s, reference |-> r, res |-> Raise("none")]
    /\ tdata = <<>> /\ tcall = Idle
    /\ uns = Idle /\ hist = <<>> /\ sret = Idle
    /\ adj = Idle
    /\ notes = <<>> /\ annots = Idle /\ obscols = <<>> /\ aret = Idle

\* One call of _get_groups_order(groups_subset, group_names, reference).
SelectGroups ==
    /\ gsel.op = "args"
    /\ gsel' = [gsel EXCEPT !.op = "called",
                            !.res = GetGroupsOrder(gsel.subset, SelGroupNames, gsel.reference)]
    /\ UNCHANGED <<testerVars, storeVars, adjustVars, annotVars>>


(***************************************************************************)
(* CategoricalTester: _evaluate_categorical_features                       *)
(* (src/ehrapy/tools/_utils.py 142-238).                                   *)
(*                                                                         *)
(* A feature name is [pre |-> number of "ehrapycat_" prefixes, base].      *)
(* The dataset has the grouping column, listed among the non-numerical     *)
(* columns without its prefix, and one categorical feature.  An            *)
(* observation is [grp |-> its group, val |-> its value of the feature].   *)
(***************************************************************************)
NObs == 3

FeatureName(p, b) == [pre |-> p, base |-> b]
Prefixed(f) == [f EXCEPT !.pre = @ + 1]           \* "ehrapycat_" + f

GroupBy == FeatureName(1, "ward")
NonNumericalColumns == <<FeatureName(0, "ward"), FeatureName(0, "diagnosis")>>

TGroupNames == <<StrId("A"), StrId("B"), StrId("C")>>
TValues == {"x", "y"}

\* Line 198: the grouping column is not tested against itself.
IsGroupingFeature(feature, groupby) ==
    \/ feature = groupby
    \/ Prefixed(feature) = groupby
    \/ feature = Prefixed(groupby)

TestedFeatures(groupby) ==
    LET Tested(f) == ~IsGroupingFeature(f, groupby)
    IN  SelectSeq(NonNumericalColumns, Tested)

\* pd.crosstab(values, mask) of the observations in `taken`: the count of each
\* (value, mask) pair.
Crosstab(data, taken, mask) ==
    [c \in TValues \X BOOLEAN |->
        Cardinality({i \in taken : data[i].val = c[1] /\ mask[i] = c[2]})]

\* Lines 210-212: reference "rest".
RestTable(data, group, groups_order) ==
    LET reference_mask == [i \in DOMAIN data |->
                              data[i].grp # group /\ IsIn(data[i].grp, groups_order)]
    IN  Crosstab(data, DOMAIN data, reference_mask)

\* Lines 214-216: a reference group.
ReferenceTable(data, group, reference) ==
    LET obs_to_take == {i \in DOMAIN data : data[i].grp \in {group, reference}}
        reference_mask == [i \in obs_to_take |-> data[i].grp = reference]
    IN  Crosstab(data, obs_to_take, reference_mask)

ContingencyTable(data, group, groups_order, reference) ==
    IF reference = Rest
    THEN RestTable(data, group, groups_order)
    ELSE ReferenceTable(data, group, reference)

TableEmpty(t) == \A c \in DOMAIN t : t[c] = 0

\* scipy's chi2_contingency is a function of the table alone; its two results
\* are kept symbolic.  It raises ValueError on a table without observations.
Score(t) == <<"statistic", t>>
PValue(t) == <<"p_value", t>>

\* Lines 206-208: the groups tested, in the order of group_names.
TestedGroups(group_names, groups_order) ==
    LET Selected(g) == IsIn(g, groups_order)
    IN  SelectSeq(group_names, Selected)

\* Lines 223, 228, 230: the width of the rows of names, fold changes and
\* percentages.
FixedRowWidth(group_names, groups_order) == Len(group_names)

Ones(n) == [j \in 1..n |-> 1]

EvaluateCategoricalFeatures(data, groupby, group_names, groups, reference, pts) ==
    LET sel == GetGroupsOrder(groups, group_names, reference)
        feats == TestedFeatures(groupby)
        tested == TestedGroups(group_names, sel.order)
        tables == [j \in DOMAIN tested |->
                      ContingencyTable(data, tested[j], sel.order, reference)]
        width == FixedRowWidth(group_names, sel.order)
        none == [names |-> <<>>, scores |-> <<>>, pvals |-> <<>>,
                 logfoldchanges |-> <<>>, pts |-> <<>>, tables |-> <<>>,
                 groups_order |-> <<>>]
    IN  IF sel.err # "none" THEN [err |-> sel.err] @@ none
        ELSE IF feats # <<>> /\ \E j \in DOMAIN tables : TableEmpty(tables[j])
        THEN [err |-> "ValueError"] @@ none
        ELSE [err |-> "none",
              names |-> [f \in DOMAIN feats |-> [j \in 1..width |-> feats[f]]],
              scores |-> [f \in DOMAIN feats |-> [j \in DOMAIN tables |-> Score(tables[j])]],
              pvals |-> [f \in DOMAIN feats |-> [j \in DOMAIN tables |-> PValue(tables[j])]],
              logfoldchanges |-> [f \in DOMAIN feats |-> Ones(width)],
              pts |-> IF pts THEN [f \in DOMAIN feats |-> Ones(width)] ELSE <<>>,
              tables |-> tables,
              groups_order |-> sel.order]

(***************************************************************************)
(* SpecTester: every call on every dataset of NObs observations.           *)
(***************************************************************************)
\* The explicit subsets tried: the sequences of distinct known group names.
TSubsets ==
    {SubsetAll} \cup
    {SubsetSeq(s) : s \in {q \in SeqsUpTo(Range(TGroupNames), Len(TGroupNames)) :
                              \A i, j \in DOMAIN q : i # j => q[i] # q[j]}}

TReferences == {Rest} \cup Range(TGroupNames)

TesterInit ==
    /\ tdata \in [1..NObs -> [grp : Range(TGroupNames), val : TValues]]
    /\ tcall = [op |-> "none"]
    /\ gsel = Idle
    /\ uns = Idle /\ hist = <<>> /\ sret = Idle
    /\ adj = Idle
    /\ notes = <<>> /\ annots = Idle /\ obscols = <<>> /\ aret = Idle

\* One call of _evaluate_categorical_features on the dataset.
EvaluateCategorical ==
    /\ tcall.op = "none"
    /\ \E g \in TSubsets, r \in TReferences, p \in BOOLEAN :
          tcall' = [op |-> "evaluate", groups |-> g, reference |-> r, pts |-> p,
                    res |-> EvaluateCategoricalFeatures(tdata, GroupBy, TGroupNames, g, r, p)]
    /\ UNCHANGED <<tdata, selectVars, storeVars, adjustVars, annotVars>>


(***************************************************************************)
(* ResultStore: _merge_arrays and _save_rank_features_result               *)
(* (src/ehrapy/tools/_utils.py 9-20, 81-111).                              *)
(*                                                                         *)
(* A structured array is [names |-> its column names in dtype order,       *)
(* col |-> the values of each column, first row first].  The array a call  *)
(* passes is a sequence of rows, each a sequence with one value per        *)
(* position of groups_order.  uns is [present |-> key_added in adata.uns,  *)
(* keys |-> the keys of adata.uns[key_added] in insertion order,           *)
(* val |-> their values].                                                  *)
(***************************************************************************)
FieldNames == <<"names", "scores", "pvals", "pvals_adj", "logfoldchanges", "pts">>

Pos(g, order) == CHOOSE j \in DOMAIN order : order[j] = g

\* A plain array labelled by groups_order: pd.DataFrame(array, columns=groups_order),
\* and the structured array the first call stores as it is.
FromRows(rows, order) ==
    [names |-> order,
     col |-> [g \in Range(order) |-> [r \in DOMAIN rows |-> rows[r][Pos(g, order)]]]]

\* Lines 13-20: the stored columns picked by name in the order of groups_order,
\* then the new rows under them.
MergeArraysMut(recarray, array, groups_order) ==
    [names |-> groups_order,
     col |-> [g \in Range(groups_order) |->
                 recarray.col[recarray.names[Pos(g, groups_order)]]
                     \o FromRows(array, groups_order).col[g]]]
MergeArrays(recarray, array, groups_order) ==
    LET new == FromRows(array, groups_order)
    IN  [names |-> groups_order,
         col |-> [g \in Range(groups_order) |-> recarray.col[g] \o new.col[g]]]

\* An argument of a call: None, or an array given by its rows.
None == [kind |-> "None", rows |-> <<>>]
Array(rows) == [kind |-> "array", rows |-> rows]

\* Line 101: values is None or has no rows.
SkippedMut(values) == values.kind = "None"

Skipped(values) == values.kind = "None" \/ Len(values.rows) = 0

\* Lines 104-111: one field of one call.
SaveField(u, key, values, groups_order) ==
    IF ~IsIn(key, u.keys)
    THEN [u EXCEPT !.keys = Append(@, key),
                   !.val = @ @@ (key :> FromRows(values.rows, groups_order))]
    ELSE [u EXCEPT !.val[key] = MergeArrays(@, values.rows, groups_order)]

RECURSIVE SaveFields(_, _, _, _)
SaveFields(u, fields, i, groups_order) ==
    IF i > Len(FieldNames) THEN u
    ELSE SaveFields(IF Skipped(fields[FieldNames[i]]) THEN u
                    ELSE SaveField(u, FieldNames[i], fields[FieldNames[i]], groups_order),
                    fields, i + 1, groups_order)

\* Lines 97-111.  adata.uns[key_added] of an absent key raises KeyError at the
\* first field that is not skipped.
SaveRankFeaturesResult(u, fields, groups_order) ==
    IF \A i \in DOMAIN FieldNames : Skipped(fields[FieldNames[i]])
    THEN [err |-> "none", uns |-> u]
    ELSE IF ~u.present THEN [err |-> "KeyError", uns |-> u]
    ELSE [err |-> "none", uns |-> SaveFields(u, fields, 1, groups_order)]

(***************************************************************************)
(* ResultSorter: _sort_features (src/ehrapy/tools/_utils.py 53-78).        *)
(***************************************************************************)
Perms(n) == {p \in [1..n -> 1..n] : \A i, j \in 1..n : i # j => p[i] # p[j]}

\* np.argsort(column): an index order that makes the column ascending.  The
\* default sort kind is not stable, so equal values may come in any order.
ArgSortsMut(column) == Perms(Len(column))
ArgSorts(column) ==
    {p \in Perms(Len(column)) :
        \A i \in 1..(Len(column) - 1) : column[p[i]] <= column[p[i + 1]]}

\* column[sorted_indexes]: IndexError when an index is past the column's end.
TakeFails(column, idx) == \E i \in DOMAIN idx : idx[i] > Len(column)
Take(column, idx) == [i \in DOMAIN idx |-> column[idx[i]]]

\* array[group] = values: the values fill the column when the lengths agree,
\* one value is broadcast to every row, anything else raises ValueError.
AssignFails(column, values) == Len(values) # Len(column) /\ Len(values) # 1
Assign(column, values) ==
    IF Len(values) = Len(column) THEN values
    ELSE [i \in DOMAIN column |-> values[1]]

\* Line 73: the keys the loop leaves alone.
NotSortedKeyMut(key) == key # "pvals_adj"

NotSortedKey(key) == key = "params"

\* Line 78 for one key and one group.
SortColumn(array, group, idx) ==
    [array EXCEPT !.col[group] = Assign(@, Take(@, idx))]

\* Lines 68-78 from the k-th key of the g-th group on; indexes[group] is the
\* argsort of the group's adjusted p-values, taken as the group's turn starts.
RECURSIVE SortFrom(_, _, _, _, _)
SortFrom(u, groups, g, k, indexes) ==
    IF g > Len(groups) THEN [err |-> "none", uns |-> u]
    ELSE IF k > Len(u.keys) THEN SortFrom(u, groups, g + 1, 1, indexes)
    ELSE LET key == u.keys[k]
             group == groups[g]
             idx == indexes[group]
         IN  IF NotSortedKey(key) THEN SortFrom(u, groups, g, k + 1, indexes)
             ELSE IF TakeFails(u.val[key].col[group], idx)
             THEN [err |-> "IndexError", uns |-> u]
             ELSE IF AssignFails(u.val[key].col[group], Take(u.val[key].col[group], idx))
             THEN [err |-> "ValueError", uns |-> u]
             ELSE SortFrom([u EXCEPT !.val[key] = SortColumn(@, group, idx)],
                           groups, g, k + 1, indexes)

\* The argsort results a call may meet: one per group column of pvals_adj.  A
\* column sorted earlier in the call is not read again, so they are those of the
\* columns as stored.
SortIndexes(u) ==
    LET a == u.val["pvals_adj"]
    IN  {ix \in [Range(a.names) -> UNION {Perms(Len(a.col[g])) : g \in Range(a.names)}] :
            \A g \in Range(a.names) : ix[g] \in ArgSorts(a.col[g])}

SortFeatures(u, indexes) ==
    SortFrom(u, u.val["pvals_adj"].names, 1, 1, indexes)

(***************************************************************************)
(* SpecStore: save calls under one key, in any group order, and sorts.     *)
(* The values of names, scores, pvals, logfoldchanges and pts are never    *)
(* read by the code, so each is the symbolic value Cell(c, r, j): what     *)
(* call c passed at row r, position j.  Adjusted p-values are numbers, as   *)
(* the sort compares them: a smaller and a larger one, which give every    *)
(* order and every tie of the rows of a column.  At most MaxRows rows are   *)
(* stored.                                                                 *)
(***************************************************************************)
MaxRows == 2

AdjValues == {0, 1}

StoreGroups == {"A", "B"}
StoreOrders == {<<"A", "B">>, <<"B", "A">>}

ParamsValue == [groupby |-> "ward", reference |-> "rest"]

Cell(c, r, j) == [call |-> c, row |-> r, pos |-> j]
CellRows(c, n) ==
    Array([r \in 1..n |-> [j \in 1..Cardinality(StoreGroups) |-> Cell(c, r, j)]])

AdjRows(n) == {Array(m) : m \in [1..n -> [1..Cardinality(StoreGroups) -> AdjValues]]}

StoredRows(u) ==
    IF IsIn("names", u.keys) THEN Len(u.val["names"].col[u.val["names"].names[1]]) ELSE 0

StoreInit ==
    /\ uns \in {[present |-> FALSE, keys |-> <<>>, val |-> <<>>],
                [present |-> TRUE, keys |-> <<>>, val |-> <<>>],
                [present |-> TRUE, keys |-> <<"params">>, val |-> ("params" :> ParamsValue)]}
    /\ hist = <<>>
    /\ sret = [op |-> "none", err |-> "none", sorted |-> FALSE]
    /\ gsel = Idle
    /\ tdata = <<>> /\ tcall = Idle
    /\ adj = Idle
    /\ notes = <<>> /\ annots = Idle /\ obscols = <<>> /\ aret = Idle

\* The arguments of the c-th call: names, scores, pvals and logfoldchanges
\* with n rows, pvals_adj as given, pts left at its default None.
CallFields(c, n, pvals_adj) ==
    [names |-> CellRows(c, n), scores |-> CellRows(c, n), pvals |-> CellRows(c, n),
     pvals_adj |-> pvals_adj, logfoldchanges |-> CellRows(c, n), pts |-> None]

\* One call of _save_rank_features_result, with pvals_adj an array of n rows,
\* None or empty.
Save ==
    \E order \in StoreOrders, n \in 1..(MaxRows - StoredRows(uns)) :
      \E a \in {None, Array(<<>>)} \cup AdjRows(n) :
        LET res == SaveRankFeaturesResult(uns, CallFields(Len(hist) + 1, n, a), order)
        IN  /\ uns' = res.uns
            /\ hist' = IF res.err = "none"
                       THEN Append(hist, [order |-> order, n |-> n, pvals_adj |-> a])
                       ELSE hist
            /\ sret' = [sret EXCEPT !.op = "save", !.err = res.err]
            /\ UNCHANGED <<selectVars, testerVars, adjustVars, annotVars>>

\* One call of _sort_features: nothing happens when the key is absent,
\* KeyError when the stored result has no pvals_adj.
Sort ==
    /\ IF ~uns.present
       THEN /\ uns' = uns
            /\ sret' = [sret EXCEPT !.op = "sort", !.err = "none"]
       ELSE IF ~IsIn("pvals_adj", uns.keys)
       THEN /\ uns' = uns
            /\ sret' = [sret EXCEPT !.op = "sort", !.err = "KeyError"]
       ELSE \E ix \in SortIndexes(uns) :
              LET res == SortFeatures(uns, ix)
              IN  /\ uns' = res.uns
                  /\ sret' = [op |-> "sort", err |-> res.err, sorted |-> TRUE]
    /\ UNCHANGED <<hist, selectVars, testerVars, adjustVars, annotVars>>


(***************************************************************************)
(* PValueAdjuster: _adjust_pvalues (src/ehrapy/tools/_utils.py 23-50).     *)
(*                                                                         *)
(* A p-value is a whole number of units of 1/POne, so that the products    *)
(* and quotients of the corrections are exact; the raw p-values are the    *)
(* multiples of 1/PSteps.                                                  *)
(***************************************************************************)
MaxAdjRows == 2
PSteps == 2

RECURSIVE Factorial(_)
Factorial(n) == IF n <= 1 THEN 1 ELSE n * Factorial(n - 1)

PUnit == Factorial(MaxAdjRows)      \* the units of 1/PSteps
POne == PSteps * PUnit              \* the p-value 1

MinOf(S) == CHOOSE x \in S : \A y \in S : x <= y

\* Line 40: np.ones_like(pvals).
OnesLike(pvals) ==
    [names |-> pvals.names,
     col |-> [g \in Range(pvals.names) |-> [i \in DOMAIN pvals.col[g] |-> POne]]]

\* statsmodels multipletests(method="bonferroni"): p * ntests, cut at 1.
BonferroniMut(column) == [i \in DOMAIN column |-> column[i] \div Len(column)]
Bonferroni(column) ==
    [i \in DOMAIN column |->
        IF column[i] * Len(column) > POne THEN POne ELSE column[i] * Len(column)]

\* statsmodels multipletests(method="fdr_bh"): the sorted p-values divided by
\* rank/ntests, the running minimum taken from the largest down, cut at 1.
CountLE(column, x) == Cardinality({k \in DOMAIN column : column[k] <= x})
BenjaminiHochberg(column) ==
    [i \in DOMAIN column |->
        MinOf({POne} \cup
              {(column[k] * Len(column)) \div CountLE(column, column[k]) :
                  k \in {k \in DOMAIN column : column[k] >= column[i]}})]

\* Lines 35-38 and 46: method_map[corr_method].
MethodKnown(corr_method) == corr_method \in {"benjamini-hochberg", "bonferroni"}

Multipletests(column, corr_method) ==
    IF corr_method = "bonferroni" THEN Bonferroni(column) ELSE BenjaminiHochberg(column)

\* Lines 42-48: the groups from the g-th on.  method_map is read inside the
\* loop, so an unknown method raises KeyError at the first group.
RECURSIVE AdjustFrom(_, _, _, _)
AdjustFrom(pvals, out, g, corr_method) ==
    IF g > Len(pvals.names) THEN [err |-> "none", pvals_adj |-> out]
    ELSE IF ~MethodKnown(corr_method)
    THEN [err |-> "UnsupportedCorrectionMethod", pvals_adj |-> <<>>]
    ELSE AdjustFrom(pvals,
                    [out EXCEPT !.col[pvals.names[g]] =
                        Multipletests(pvals.col[pvals.names[g]], corr_method)],
                    g + 1, corr_method)

AdjustPvalues(pvals, corr_method) == AdjustFrom(pvals, OnesLike(pvals), 1, corr_method)

(***************************************************************************)
(* SpecAdjust: every call on every array of at most MaxAdjRows rows.       *)
(***************************************************************************)
AdjGroupNames == {<<>>, <<"A", "B">>}
AdjMethods == {"benjamini-hochberg", "bonferroni", "holm"}

RawPValues == {k * PUnit : k \in 0..PSteps}

AdjArrays ==
    UNION {{[names |-> names, col |-> c] : c \in [Range(names) -> [1..n -> RawPValues]]} :
              names \in AdjGroupNames, n \in 1..MaxAdjRows}

AdjustInit ==
    /\ \E a \in AdjArrays :
          adj = [op |-> "args", pvals |-> a, method |-> "none",
                 res |-> [err |-> "none", pvals_adj |-> <<>>]]
    /\ gsel = Idle
    /\ tdata = <<>> /\ tcall = Idle
    /\ uns = Idle /\ hist = <<>> /\ sret = Idle
    /\ notes = <<>> /\ annots = Idle /\ obscols = <<>> /\ aret = Idle

\* One call of _adjust_pvalues(pvals, corr_method).
Adjust ==
    /\ adj.op = "args"
    /\ \E m \in AdjMethods :
          adj' = [adj EXCEPT !.op = "called", !.method = m,
                             !.res = AdjustPvalues(adj.pvals, m)]
    /\ UNCHANGED <<selectVars, testerVars, storeVars, annotVars>>


(***************************************************************************)
(* AnnotationAggregator: annotate_text and its helpers                     *)
(* (src/ehrapy/tools/nlp/_medcat.py 19-106).                               *)
(*                                                                         *)
(* notes[r] is the text of row r or "null".  The annotator's result maps   *)
(* each row it was given to its "entities" dict, written as the sequence   *)
(* of its entries [id |-> key, ent |-> value] in key order; the pseudo     *)
(* entry has the key "tokens".                                             *)
(***************************************************************************)
NRows == 2
MaxEntities == 3

Entity(cui, name, tui, type, status) ==
    [cui |-> cui, pretty_name |-> name, type_ids |-> <<tui>>, types |-> <<type>>,
     meta_anns |-> status]

\* What the annotator may find in a text.
EntityKinds ==
    {Entity("C0011849", "Diabetes", "T047", "Disease", "Affirmed"),
     Entity("C0011849", "Diabetes", "T047", "Disease", "Other"),
     Entity("C0015967", "Fever", "T184", "Finding", "Affirmed")}

\* Lines 19-33: the (row id, text) pairs of the rows whose text is not null.
NonNullRows(text) == {r \in DOMAIN text : text[r] # "null"}

TokensEntry == [id |-> "tokens", ent |-> Entity("-", "-", "-", "-", "-")]

\* Line 50: the entries that are entities.
IsEntity(entry) == entry.id # "tokens"

\* Lines 47-60 for one row: one record per entry that is an entity.
FlattenRow(row_id, entities) ==
    LET kept == SelectSeq(entities, IsEntity)
    IN  [e \in DOMAIN kept |-> [row_nr |-> row_id] @@ kept[e].ent]

\* Lines 41-61: the rows of the result in ascending row id.
RECURSIVE FlattenFrom(_, _, _)
FlattenFrom(results, r, last) ==
    IF r > last THEN <<>>
    ELSE (IF r \in DOMAIN results THEN FlattenRow(r, results[r]) ELSE <<>>)
             \o FlattenFrom(results, r + 1, last)

FlattenAnnotatedResults(results, last) == FlattenFrom(results, 1, last)

Triple(rec) == <<rec.cui, rec.row_nr, rec.meta_anns>>

\* pandas drop_duplicates(subset=[cui, row_nr, meta_anns]): the first record
\* of every triple is kept.
DropDuplicates(table) ==
    LET First(i) == \A k \in 1..(i - 1) : Triple(table[k]) # Triple(table[i])
        F[i \in 0..Len(table)] ==
            IF i = 0 THEN <<>>
            ELSE IF First(i) THEN Append(F[i - 1], table[i]) ELSE F[i - 1]
    IN  F[Len(table)]

\* Lines 66-70: the result of drop_duplicates is not assigned, so the frame
\* returned is the one built from the flattened records.
AnnotatedResultsToDf(flattened) ==
    LET df == flattened
        dropped == DropDuplicates(df)
    IN  df

\* Line 104: sort_values(by=["row_nr"]).reset_index(drop=True); records of one
\* row keep their order.
SortByRow(table, last) ==
    LET F[r \in 0..last] ==
            IF r = 0 THEN <<>>
            ELSE LET OfRow(rec) == rec.row_nr = r
                 IN  F[r - 1] \o SelectSeq(table, OfRow)
    IN  F[last]

\* Lines 98-104.  A result without any entity makes a frame without columns,
\* on which drop_duplicates(subset=...) raises KeyError.
AnnotateText(text, results) ==
    LET flattened == FlattenAnnotatedResults(results, Len(text))
    IN  IF flattened = <<>> THEN [err |-> "KeyError", table |-> <<>>]
        ELSE [err |-> "none",
              table |-> SortByRow(AnnotatedResultsToDf(flattened), Len(text))]

(***************************************************************************)
(* tag_rows: add_medcat_annotation_to_obs and its helpers                  *)
(* (src/ehrapy/tools/nlp/_medcat.py 109-117, 159-226).                     *)
(***************************************************************************)
\* Lines 109-117.
FilterDfByStatus(table, status) ==
    IF status = "Both" THEN [err |-> "none", table |-> table]
    ELSE IF status \notin {"Affirmed", "Other"}
    THEN [err |-> "StatusNotSupportedError", table |-> <<>>]
    ELSE LET Has(rec) == rec.meta_anns = status
         IN  [err |-> "none", table |-> SelectSeq(table, Has)]

PrettyNames(table) == {table[i].pretty_name : i \in DOMAIN table}

\* thefuzz lower-cases the strings it compares.
Lower(nm) == IF nm = "Diabetes" THEN "diabetes" ELSE IF nm = "Fever" THEN "fever"
             ELSE IF nm = "Xyz" THEN "xyz" ELSE nm

\* thefuzz's similarity of two names, 0..100, on the names used here.
FuzzScore(query, choice) ==
    IF Lower(query) = Lower(choice) THEN 100
    ELSE IF "xyz" \in {Lower(query), Lower(choice)} THEN 0
    ELSE 36

ScoreCutoff == 50

\* process.extractOne(query, choices, score_cutoff=50): the best choice, or
\* None (written <<>>) when no choice reaches the cutoff.
ExtractOne(query, choices) ==
    LET good == {c \in choices : FuzzScore(query, c) >= ScoreCutoff}
    IN  IF good = {} THEN <<>>
        ELSE <<CHOOSE c \in good : \A d \in good : FuzzScore(query, c) >= FuzzScore(query, d)>>

\* Lines 163-177.  Unpacking None at line 168 raises TypeError; otherwise every
\* invalid name has a suggestion, and the message shows the last one.
RECURSIVE CheckFrom(_, _, _, _, _)
CheckFrom(table, name, i, invalid, new_name) ==
    IF i > Len(name)
    THEN IF invalid # <<>>
         THEN [err |-> "EntityNotFoundError", invalid |-> invalid, suggestion |-> new_name]
         ELSE [err |-> "none", invalid |-> <<>>, suggestion |-> <<>>]
    ELSE IF name[i] \in PrettyNames(table)
    THEN CheckFrom(table, name, i + 1, invalid, new_name)
    ELSE IF ExtractOne(name[i], PrettyNames(table)) = <<>>
    THEN [err |-> "TypeError", invalid |-> Append(invalid, name[i]), suggestion |-> <<>>]
    ELSE CheckFrom(table, name, i + 1, Append(invalid, name[i]),
                   ExtractOne(name[i], PrettyNames(table)))

CheckValidName(table, name) == CheckFrom(table, name, 1, <<>>, <<>>)

\* Line 221: groupby("row_nr").agg(...) has one entry per row with an affirmed
\* record, 1 when one of the row's affirmed records has the name, else 0.
HasName(affirmed, nm, r) ==
    IF \E i \in DOMAIN affirmed :
          affirmed[i].row_nr = r /\ affirmed[i].pretty_name = nm
    THEN 1 ELSE 0

AffirmedRows(affirmed) == {affirmed[i].row_nr : i \in DOMAIN affirmed}

\* Lines 220-223: the aggregate is aligned with the rows of adata.obs, rows
\* without an entry are NaN, and the replace turns 1 and 0 into "yes" and "no".
Replaced(affirmed, nm, rows) ==
    [r \in rows |->
        IF r \notin AffirmedRows(affirmed) THEN "nan"
        ELSE IF HasName(affirmed, nm, r) = 1 THEN "yes" ELSE "no"]

\* The categories of a categorical column after line 223: only the values
\* that occur.
Categories(column) == {column[r] : r \in DOMAIN column} \ {"nan"}

\* Line 224: fillna("no") makes every NaN "no".  On a categorical column it
\* raises (TypeError, or ValueError in older pandas) when "no" is not one of
\* the categories, with or without a NaN to fill.
FillNaMut(column) == column

FillNa(column) == [r \in DOMAIN column |-> IF column[r] = "nan" THEN "no" ELSE column[r]]

\* Lines 220-224 for one name.  Whether the column assigned from the
\* one-column frame at line 220 keeps the categorical dtype depends on the
\* pandas release (older ones store the frame's plain values): categorical.
TagColumn(affirmed, nm, rows, categorical) ==
    LET column == Replaced(affirmed, nm, rows)
    IN  IF categorical /\ "no" \notin Categories(column)
        THEN [err |-> "NewCategoryError", col |-> column]
        ELSE [err |-> "none", col |-> FillNa(column)]

\* Lines 219-224 from the i-th name on; added_colname[i] past the end of the
\* list raises IndexError after the columns before it were written, and a
\* fillna that raises leaves the column as line 223 made it.
RECURSIVE TagFrom(_, _, _, _, _, _, _)
TagFrom(cols, affirmed, name, added_colname, i, rows, categorical) ==
    IF i > Len(name) THEN [err |-> "none", obs |-> cols]
    ELSE IF i > Len(added_colname) THEN [err |-> "IndexError", obs |-> cols]
    ELSE LET tagged == TagColumn(affirmed, name[i], rows, categorical[i])
             written == [c \in DOMAIN cols \cup {added_colname[i]} |->
                            IF c = added_colname[i] THEN tagged.col ELSE cols[c]]
         IN  IF tagged.err # "none" THEN [err |-> tagged.err, obs |-> written]
             ELSE TagFrom(written, affirmed, name, added_colname, i + 1, rows,
                          categorical)

\* An argument that is a str, a list of str or None is [kind, v |-> its strings].
\* Lines 198-199: a single name becomes a list of one name.
NameList(name) == name.v

\* Lines 201-206: the column names, or the error of a list of another length.
ColumnsMismatch(name, added_colname) ==
    added_colname.kind = "list" /\ Len(added_colname.v) # Len(NameList(name))

ColumnList(name, added_colname) ==
    IF added_colname.kind = "None" THEN NameList(name)
    ELSE added_colname.v

\* Lines 192-226.
AddMedcatAnnotationToObs(store, cols, name, added_colname, rows, categorical) ==
    IF ~store.present THEN [err |-> "ValueError", obs |-> cols, check |-> <<>>]
    ELSE IF ColumnsMismatch(name, added_colname)
    THEN [err |-> "LengthMismatchError", obs |-> cols, check |-> <<>>]
    ELSE LET check == CheckValidName(store.table, NameList(name))
             affirmed == FilterDfByStatus(store.table, "Affirmed").table
             tagged == TagFrom(cols, affirmed, NameList(name),
                               ColumnList(name, added_colname), 1, rows, categorical)
         IN  IF check.err # "none"
             THEN [err |-> check.err, obs |-> cols, check |-> check]
             ELSE [err |-> tagged.err, obs |-> tagged.obs, check |-> check]

(***************************************************************************)
(* overview: get_medcat_annotation_overview                                *)
(* (src/ehrapy/tools/nlp/_medcat.py 120-156).                              *)
(***************************************************************************)
\* Line 140: the groups of groupby("cui"), one per distinct cui.
Cuis(table) == {table[i].cui : i \in DOMAIN table}

OfCui(table, cui) ==
    LET Has(rec) == rec.cui = cui
    IN  SelectSeq(table, Has)

\* pandas nunique of the row_nr column: the number of distinct values.
NUniqueMut(table) == Len(table)

NUnique(table) == Cardinality({table[i].row_nr : i \in DOMAIN table})

\* Line 153: (n_patient_visit / total) * 100, kept as the fraction num / den.
Percent(n, total) == [num |-> n * 100, den |-> total]

\* Line 145: next(iter(set(x))) is any one of the pretty names of the group.
RepresentativeNames(table) ==
    {f \in [Cuis(table) -> PrettyNames(table)] :
        \A c \in Cuis(table) : f[c] \in PrettyNames(OfCui(table, c))}

\* Lines 143-153 on the filtered table df; line 154 rounds a copy that is
\* dropped, so the percentage is stored unrounded.
Aggregate(df, names) ==
    [c \in Cuis(df) |->
        [pretty_name |-> names[c],
         type_ids |-> OfCui(df, c)[1].type_ids[1],
         types |-> OfCui(df, c)[1].types[1],
         n_patient_visit |-> NUnique(OfCui(df, c)),
         n_patient_visit_percent |-> Percent(NUnique(OfCui(df, c)), NUnique(df))]]

\* Lines 138-156: the possible overviews; adata.uns[use_key] raises KeyError
\* when nothing is stored under the key.
GetMedcatAnnotationOverview(store, status) ==
    IF ~store.present THEN {[err |-> "KeyError", res |-> <<>>]}
    ELSE LET filtered == FilterDfByStatus(store.table, status)
         IN  IF filtered.err # "none" THEN {[err |-> filtered.err, res |-> <<>>]}
             ELSE {[err |-> "none", res |-> Aggregate(filtered.table, names)] :
                      names \in RepresentativeNames(filtered.table)}

(***************************************************************************)
(* SpecAnnot: one annotate_text of every dataset and annotator result of   *)
(* at most MaxEntities entities, then one add_medcat_annotation_to_obs or  *)
(* one get_medcat_annotation_overview.                                     *)
(***************************************************************************)
EntityEntry(e) == [id |-> "n", ent |-> e]

RECURSIVE CountFrom(_, _, _)
CountFrom(found, r, last) ==
    IF r > last THEN 0
    ELSE (IF r \in DOMAIN found THEN Len(found[r]) ELSE 0) + CountFrom(found, r + 1, last)

\* What cat.multiprocessing may return for the rows it is given.
AnnotatorResults(rows) ==
    {[r \in rows |-> [e \in DOMAIN found[r] |-> EntityEntry(found[r][e])]
                        \o (IF tokens THEN <<TokensEntry>> ELSE <<>>)] :
        found \in {f \in [rows -> SeqsUpTo(EntityKinds, MaxEntities)] :
                      CountFrom(f, 1, NRows) <= MaxEntities},
        tokens \in BOOLEAN}

Str(s) == [kind |-> "str", v |-> <<s>>]
List(s) == [kind |-> "list", v |-> s]
NoArg == [kind |-> "None", v |-> <<>>]

\* The concept names asked for: two in the table's spelling, one a case
\* variant, one unlike any name.
NameArgs ==
    {Str("Diabetes"), Str("Xyz")}
    \cup {List(s) : s \in UNION {[1..k -> {"Diabetes", "Fever", "diabetes", "Xyz"}] : k \in 1..2}}

ColumnArgs ==
    {NoArg, Str("flag"), List(<<"c1">>), List(<<"c1", "c2">>), List(<<"c1", "c2", "c3">>)}

AnnotInit ==
    /\ notes \in [1..NRows -> {"null", "text"}]
    /\ annots = [present |-> FALSE, table |-> <<>>]
    /\ obscols = <<>>
    /\ aret = [op |-> "none", err |-> "none"]
    /\ gsel = Idle
    /\ tdata = <<>> /\ tcall = Idle
    /\ uns = Idle /\ hist = <<>> /\ sret = Idle
    /\ adj = Idle

\* One call of annotate_text.
Annotate ==
    /\ aret.op = "none"
    /\ \E results \in AnnotatorResults(NonNullRows(notes)) :
          LET res == AnnotateText(notes, results)
          IN  /\ annots' = IF res.err = "none"
                           THEN [present |-> TRUE, table |-> res.table] ELSE annots
              /\ aret' = [op |-> "annotate", err |-> res.err, results |-> results]
    /\ UNCHANGED <<notes, obscols, selectVars, testerVars, storeVars, adjustVars>>

\* One call of add_medcat_annotation_to_obs.
TagRows ==
    /\ aret.op = "annotate"
    /\ \E name \in NameArgs, added_colname \in ColumnArgs :
       \E categorical \in [DOMAIN NameList(name) -> BOOLEAN] :
          LET res == AddMedcatAnnotationToObs(annots, obscols, name, added_colname,
                                              DOMAIN notes, categorical)
          IN  /\ obscols' = res.obs
              /\ aret' = [op |-> "tag_rows", err |-> res.err, name |-> name,
                          added_colname |-> added_colname, check |-> res.check]
    /\ UNCHANGED <<notes, annots, selectVars, testerVars, storeVars, adjustVars>>

\* The status arguments: the three supported ones, a case variant and a
\* status the annotator knows but the filter does not.
StatusArgs == {"Affirmed", "Other", "Both", "both", "Negated"}

\* One call of get_medcat_annotation_overview.
Overview ==
    /\ aret.op = "annotate"
    /\ \E status \in StatusArgs :
          \E out \in GetMedcatAnnotationOverview(annots, status) :
              aret' = [op |-> "overview", err |-> out.err, status |-> status,
                       res |-> out.res]
    /\ UNCHANGED <<notes, annots, obscols, selectVars, testerVars, storeVars, adjustVars>>


(***************************************************************************)
(* The specifications.                                                     *)
(***************************************************************************)
SelectNext == SelectGroups
SpecSelect == SelectInit /\ [][SelectNext]_vars

TesterNext == EvaluateCategorical
SpecTester == TesterInit /\ [][TesterNext]_vars

StoreNext == Save \/ Sort
SpecStore == StoreInit /\ [][StoreNext]_vars

AdjustNext == Adjust
SpecAdjust == AdjustInit /\ [][AdjustNext]_vars

AnnotNext == Annotate \/ TagRows \/ Overview
SpecAnnot == AnnotInit /\ [][AnnotNext]_vars

(***************************************************************************)
(* Properties of the result store (SpecStore).                             *)
(***************************************************************************)
\* The values the c-th save call passed for group g in field f, first row first.
CallColumn(c, f, g) ==
    LET values == CallFields(c, hist[c].n, hist[c].pvals_adj)[f]
    IN  IF Skipped(values) THEN <<>>
        ELSE [r \in DOMAIN values.rows |-> values.rows[r][Pos(g, hist[c].order)]]

\* The values the first c calls passed for group g in field f, in call order.
RECURSIVE CallsColumn(_, _, _)
CallsColumn(c, f, g) ==
    IF c = 0 THEN <<>> ELSE CallsColumn(c - 1, f, g) \o CallColumn(c, f, g)

\* C1: after save calls under one key whose group orders are permutations of
\* one group set, and before any sort, the column of every group g of every
\* stored field holds the values the calls passed for g, call after call, none
\* dropped and none of another group.
C1_SaveKeepsGroupsAligned ==
    (uns.present /\ ~sret.sorted) =>
        \A i \in DOMAIN FieldNames :
            IsIn(FieldNames[i], uns.keys) =>
                /\ Range(uns.val[FieldNames[i]].names) = StoreGroups
                /\ \A g \in StoreGroups :
                      uns.val[FieldNames[i]].col[g] = CallsColumn(Len(hist), FieldNames[i], g)

\* Two calls, the first in the order A, B and the second in the order B, A,
\* both with adjusted p-values that differ between the groups.
C1_Witness ==
    /\ Len(hist) = 2 /\ ~sret.sorted /\ sret.err = "none"
    /\ hist[1].order = <<"A", "B">> /\ hist[2].order = <<"B", "A">>
    /\ hist[1].pvals_adj = Array(<<<<0, 1>>>>)
    /\ hist[2].pvals_adj = Array(<<<<0, 1>>>>)
    /\ uns.val["pvals_adj"].col["A"] = <<0, 1>>
    /\ uns.val["pvals_adj"].col["B"] = <<1, 0>>
    /\ uns.val["names"].col["A"] = <<Cell(1, 1, 1), Cell(2, 1, 2)>>

NonDecreasing(column) ==
    \A i \in 1..(Len(column) - 1) : column[i] <= column[i + 1]

SortReturned == sret.op = "sort" /\ sret.err = "none" /\ uns.present

\* C2: after a sort of a stored result that has adjusted p-values, every group
\* column of the adjusted p-values is non-decreasing, and the sort leaves the
\* "params" entry as it was.
C2_SortedAndParamsKept ==
    /\ [](SortReturned =>
            \A g \in StoreGroups : NonDecreasing(uns.val["pvals_adj"].col[g]))
    /\ [][(sret'.op = "sort" /\ IsIn("params", uns.keys)) =>
            (IsIn("params", uns'.keys) /\ uns'.val["params"] = uns.val["params"])]_vars

\* A sort that returned on a result with "params" whose adjusted p-values were
\* stored in descending order in both group columns.
C2_Witness ==
    /\ SortReturned /\ IsIn("params", uns.keys)
    /\ Len(hist) = 1 /\ hist[1].pvals_adj = Array(<<<<1, 1>>, <<0, 0>>>>)
    /\ uns.val["pvals_adj"].col["A"] = <<0, 1>>
    /\ uns.val["params"] = ParamsValue

(***************************************************************************)
(* Properties of the annotation table and of tag_rows (SpecAnnot).         *)
(***************************************************************************)
\* C3: no two records of the table annotate stores share the same
\* (cui, row, status) triple.
C3_NoDuplicateTriples ==
    annots.present =>
        \A i, j \in DOMAIN annots.table :
            i # j => Triple(annots.table[i]) # Triple(annots.table[j])

TagCalled == aret.op = "tag_rows" /\ annots.present

InvalidNames(name) == {nm \in Range(name) : nm \notin PrettyNames(annots.table)}

HasFuzzyMatch(nm) ==
    \E c \in PrettyNames(annots.table) : FuzzScore(nm, c) >= ScoreCutoff

\* C4: tag_rows with a name that is no pretty name of the table (and with
\* matching column names) fails with EntityNotFoundError, whether or not a
\* name has a fuzzy match of score 50 or more, and the message suggests a name
\* exactly when there is such a match.
C4_UnknownNameIsEntityNotFound ==
    (/\ TagCalled
     /\ ~ColumnsMismatch(aret.name, aret.added_colname)
     /\ InvalidNames(aret.name.v) # {}) =>
        /\ aret.err = "EntityNotFoundError"
        /\ aret.check.suggestion # <<>> <=>
              \E nm \in InvalidNames(aret.name.v) : HasFuzzyMatch(nm)

\* C5: tag_rows with column names given, all names valid, and a number of
\* column names other than the number of names fails with the length-mismatch
\* error and writes no column; a single string counts as one column name.
C5_ColumnCountMismatchFails ==
    (/\ TagCalled
     /\ InvalidNames(aret.name.v) = {}
     /\ aret.added_colname.kind # "None"
     /\ Len(aret.added_colname.v) # Len(aret.name.v)) =>
        /\ aret.err = "LengthMismatchError"
        /\ obscols = <<>>

(***************************************************************************)
(* Properties of the group selector (SpecSelect).                          *)
(***************************************************************************)
SelectCalled == gsel.op = "called"

AllStr(s) == [i \in DOMAIN s |-> PyStr(s[i])]

Occurrences(x, s) == Cardinality({i \in DOMAIN s : s[i] = x})

\* The explicit subset as requested: as given, or with its integers as strings.
IsRequested(order, s) == order = s \/ order = AllStr(s)

\* C6: for an explicit subset and a known reference other than "rest" that is
\* not in the subset (as given or with its integers as strings), the result is
\* the subset in the requested order followed by the reference, which occurs
\* once; for the reference "rest" or one in the subset, it is the subset alone.
C6_ReferenceAppendedOnce ==
    (SelectCalled /\ gsel.subset.kind = "seq") =>
        LET s == gsel.subset.v
            ref == gsel.reference
            res == gsel.res
        IN  /\ (/\ ref # Rest /\ IsIn(ref, SelGroupNames)
                /\ ~IsIn(ref, s) /\ ~IsIn(ref, AllStr(s))) =>
                   /\ res.err = "none"
                   /\ Len(res.order) = Len(s) + 1
                   /\ IsRequested(SubSeq(res.order, 1, Len(s)), s)
                   /\ res.order[Len(res.order)] = ref
                   /\ Occurrences(ref, res.order) = 1
            /\ (ref = Rest \/ (IsIn(ref, SelGroupNames) /\ IsIn(ref, s))) =>
                   /\ res.err = "none"
                   /\ IsRequested(res.order, s)

\* C7: for the subset "all" or a sequence of any length, a reference that is
\* neither "rest" nor a known group name fails with UnknownReferenceGroup and
\* no group order is returned.
C7_UnknownReferenceFails ==
    (/\ SelectCalled
     /\ gsel.subset.kind \in {"all", "seq"}
     /\ gsel.reference # Rest
     /\ ~IsIn(gsel.reference, SelGroupNames)) =>
        /\ gsel.res.err = "UnknownReferenceGroup"
        /\ gsel.res.order = <<>>

(***************************************************************************)
(* Properties of the categorical tester (SpecTester).                      *)
(***************************************************************************)
Evaluated == tcall.op = "evaluate" /\ tcall.res.err = "none"

\* C8: with reference "rest", the table built for group g counts, per feature
\* value, the observations of g on one side and those of the other selected
\* groups on the other; an observation of a group that is not selected is
\* counted on neither side.
C8_RestTableCountsSelectedOnly ==
    (Evaluated /\ tcall.reference = Rest) =>
        LET order == tcall.res.groups_order
            tested == TestedGroups(TGroupNames, order)
        IN  \A j \in DOMAIN tcall.res.tables : \A v \in TValues :
                LET ofGroup == {i \in DOMAIN tdata :
                                   tdata[i].val = v /\ tdata[i].grp = tested[j]}
                    ofOthers == {i \in DOMAIN tdata :
                                    /\ tdata[i].val = v /\ tdata[i].grp # tested[j]
                                    /\ IsIn(tdata[i].grp, order)}
                IN  /\ tcall.res.tables[j][<<v, FALSE>>] = Cardinality(ofGroup)
                    /\ tcall.res.tables[j][<<v, TRUE>>] = Cardinality(ofOthers)

HasShape(array, rows, columns) ==
    Len(array) = rows /\ \A r \in DOMAIN array : Len(array[r]) = columns

\* C9: the arrays returned for names, scores, p-values and fold changes, and
\* for percentages when asked for, have one row per tested feature and one
\* column per group of the canonical group order.
C9_ArraysShareShape ==
    Evaluated =>
        LET rows == Len(TestedFeatures(GroupBy))
            columns == Len(tcall.res.groups_order)
        IN  /\ HasShape(tcall.res.names, rows, columns)
            /\ HasShape(tcall.res.scores, rows, columns)
            /\ HasShape(tcall.res.pvals, rows, columns)
            /\ HasShape(tcall.res.logfoldchanges, rows, columns)
            /\ tcall.pts => HasShape(tcall.res.pts, rows, columns)

(***************************************************************************)
(* Properties of the p-value adjuster (SpecAdjust).                        *)
(***************************************************************************)
\* pvals with every column but that of g set to the p-value 0.
Isolated(pvals, g) ==
    [pvals EXCEPT !.col = [h \in DOMAIN pvals.col |->
                              IF h = g THEN pvals.col[h]
                              ELSE [i \in DOMAIN pvals.col[h] |-> 0]]]

\* C10: the "bonferroni" adjustment returns the same group columns with the
\* same number of rows, every value at least the raw value at its place, and
\* the adjusted column of a group is what it is whatever the other columns hold.
C10_BonferroniAtLeastRaw ==
    (adj.op = "called" /\ adj.method = "bonferroni") =>
        /\ adj.res.err = "none"
        /\ adj.res.pvals_adj.names = adj.pvals.names
        /\ \A g \in Range(adj.pvals.names) :
              /\ Len(adj.res.pvals_adj.col[g]) = Len(adj.pvals.col[g])
              /\ \A i \in DOMAIN adj.pvals.col[g] :
                    /\ adj.res.pvals_adj.col[g][i] >= adj.pvals.col[g][i]
                    /\ adj.res.pvals_adj.col[g][i] <= POne
              /\ adj.res.pvals_adj.col[g] =
                    AdjustPvalues(Isolated(adj.pvals, g), "bonferroni").pvals_adj.col[g]

\* A bonferroni call on two rows in which the columns differ, one value is
\* doubled and one is cut at 1.
C10_Witness ==
    /\ adj.op = "called" /\ adj.method = "bonferroni"
    /\ adj.pvals.names = <<"A", "B">>
    /\ adj.pvals.col["A"] = <<PUnit, POne>>
    /\ adj.pvals.col["B"] = <<0, PUnit>>
    /\ adj.res.pvals_adj.col["A"] = <<2 * PUnit, POne>>
    /\ adj.res.pvals_adj.col["B"] = <<0, 2 * PUnit>>

(***************************************************************************)
(* Properties of the overview (SpecAnnot).                                 *)
(***************************************************************************)
OverviewCalled == aret.op = "overview" /\ annots.present

\* The records of the stored table the status argument keeps.
KeptRecords(status) ==
    {i \in DOMAIN annots.table : status = "Both" \/ annots.table[i].meta_anns = status}

RowsOf(recs) == {annots.table[i].row_nr : i \in recs}

TagSucceeded == TagCalled /\ aret.err = "none"

\* The table has a record with status Affirmed, row r and pretty name nm.
AffirmedIn(r, nm) ==
    \E i \in DOMAIN annots.table :
        /\ annots.table[i].meta_anns = "Affirmed"
        /\ annots.table[i].row_nr = r
        /\ annots.table[i].pretty_name = nm

\* C12: after a tag_rows that succeeded, for every (name, column) pair and
\* every row of the dataset the column holds "yes" when the table has an
\* affirmed record of that row and name and "no" otherwise.  When two pairs
\* name one column, the column holds the values of the last pair.
C12_TaggedYesNo ==
    TagSucceeded =>
        LET name == NameList(aret.name)
            columns == ColumnList(aret.name, aret.added_colname)
            Last(i) == \A k \in DOMAIN name : columns[k] = columns[i] => k <= i
        IN  \A i \in DOMAIN name :
                /\ columns[i] \in DOMAIN obscols
                /\ Last(i) =>
                      \A r \in DOMAIN notes :
                          obscols[columns[i]][r] =
                              IF AffirmedIn(r, name[i]) THEN "yes" ELSE "no"

\* A tag_rows of the names Diabetes and Fever that succeeded on a table with an
\* affirmed Diabetes in row 1 only and an affirmed Fever in row 2 only.
C12_Witness ==
    /\ TagSucceeded
    /\ NameList(aret.name) = <<"Diabetes", "Fever">>
    /\ aret.added_colname = List(<<"c1", "c2">>)
    /\ AffirmedIn(1, "Diabetes") /\ ~AffirmedIn(2, "Diabetes")
    /\ AffirmedIn(2, "Fever") /\ ~AffirmedIn(1, "Fever")
    /\ obscols["c1"] = <<"yes", "no">>
    /\ obscols["c2"] = <<"no", "yes">>

(***************************************************************************)
(* Properties of the p-value adjuster (SpecAdjust), continued.             *)
(***************************************************************************)
AdjustCalled == adj.op = "called"

\* C13: a call with a method other than "benjamini-hochberg" and "bonferroni"
\* fails with UnsupportedCorrectionMethod and returns no array, whatever the
\* p-value array, an array without group columns included.
C13_UnknownMethodFails ==
    (AdjustCalled /\ adj.method \notin {"benjamini-hochberg", "bonferroni"}) =>
        /\ adj.res.err = "UnsupportedCorrectionMethod"
        /\ adj.res.pvals_adj = <<>>

(***************************************************************************)
(* Properties of the categorical tester (SpecTester), continued.           *)
(***************************************************************************)
\* C14: for an explicit subset, column j of the scores and of the p-values is
\* the test result of the j-th group of the group order _get_groups_order
\* returned, in every row, so that labelling the columns with that order
\* attaches each value to the group it was computed for.
C14_ColumnsFollowGroupOrder ==
    (Evaluated /\ tcall.groups.kind = "seq") =>
        LET order == tcall.res.groups_order
            TableOf(j) == ContingencyTable(tdata, order[j], order, tcall.reference)
        IN  \A f \in DOMAIN tcall.res.scores :
                /\ DOMAIN tcall.res.scores[f] = DOMAIN order
                /\ DOMAIN tcall.res.pvals[f] = DOMAIN order
                /\ \A j \in DOMAIN order :
                      /\ tcall.res.scores[f][j] = Score(TableOf(j))
                      /\ tcall.res.pvals[f][j] = PValue(TableOf(j))

(***************************************************************************)
(* Properties of the group selector (SpecSelect), continued.               *)
(***************************************************************************)
\* C15: for an explicit subset of strings and integers, every element of the
\* group order returned is a string: the i-th element is the string form of
\* the i-th element of the subset, wherever the integers stand in it.
C15_IntegersBecomeStrings ==
    (SelectCalled /\ gsel.subset.kind = "seq" /\ gsel.res.err = "none") =>
        /\ \A i \in DOMAIN gsel.res.order : gsel.res.order[i].t = "str"
        /\ \A i \in DOMAIN gsel.subset.v :
              /\ i \in DOMAIN gsel.res.order
              /\ gsel.res.order[i] = PyStr(gsel.subset.v[i])

(***************************************************************************)
(* Properties of the result store (SpecStore), continued.                  *)
(***************************************************************************)
\* The stored fields: the keys of the result other than "params".
StoredFields(u) == {u.keys[k] : k \in DOMAIN u.keys} \ {"params"}

\* Every group column of every stored field has the same number of rows.
EqualRows(u) ==
    \A f, h \in StoredFields(u) : \A g, k \in StoreGroups :
        Len(u.val[f].col[g]) = Len(u.val[h].col[k])

\* A sort is called on a result that has adjusted p-values.
SortStep == sret'.op = "sort" /\ uns.present /\ IsIn("pvals_adj", uns.keys)

\* C16: a sort of a result whose fields all have the same number of rows
\* returns and keeps the rows of each group column together: for every group
\* there is one permutation of the row positions that every stored field's
\* column of that group has undergone, so the values at a row after the sort
\* stood together at one row before it, the rows of a group are the same
\* multiset, and no column is moved by another group's permutation.
C16_SortKeepsRowsAligned ==
    [][(SortStep /\ EqualRows(uns)) =>
          /\ sret'.err = "none"
          /\ uns'.keys = uns.keys
          /\ \A g \in StoreGroups :
                \E p \in Perms(Len(uns.val["pvals_adj"].col[g])) :
                    \A f \in StoredFields(uns) :
                        uns'.val[f].col[g] = Take(uns.val[f].col[g], p)]_vars

\* A sort that returned on one saved call of two rows whose adjusted p-values
\* were descending in group A and ascending in group B: the rows of A are
\* swapped in every field and those of B stay.
C16_Witness ==
    /\ SortReturned /\ Len(hist) = 1
    /\ hist[1].order = <<"A", "B">>
    /\ hist[1].pvals_adj = Array(<<<<1, 0>>, <<0, 1>>>>)
    /\ uns.val["pvals_adj"].col["A"] = <<0, 1>>
    /\ uns.val["pvals_adj"].col["B"] = <<0, 1>>
    /\ \A f \in {"names", "scores", "pvals", "logfoldchanges"} :
          /\ uns.val[f].col["A"] = <<Cell(1, 2, 1), Cell(1, 1, 1)>>
          /\ uns.val[f].col["B"] = <<Cell(1, 1, 2), Cell(1, 2, 2)>>

\* A save call returned: the step that appends the call to hist.
SaveStep == sret'.op = "save" /\ sret'.err = "none" /\ Len(hist') = Len(hist) + 1

\* The rows of group g stored for field f, none when the field is not stored.
RowCount(u, f, g) == IF IsIn(f, u.keys) THEN Len(u.val[f].col[g]) ELSE 0

\* The fields every call of the model supplies.
AlwaysSupplied == {"names", "scores", "pvals", "logfoldchanges"}

\* C17: in save calls under one key with one group set, each passing arrays
\* of one row count n for the fields it supplies, a supplied field grows by n
\* rows in every group column, a field passed as None or empty stays exactly
\* as stored (or stays absent), and so the fields supplied by every call have
\* the same number of rows in every group column.
C17_SuppliedFieldsGrowTogether ==
    /\ [][SaveStep =>
            LET c == hist'[Len(hist')]
                fields == CallFields(Len(hist'), c.n, c.pvals_adj)
            IN  \A i \in DOMAIN FieldNames :
                    LET f == FieldNames[i]
                    IN  IF fields[f].kind = "None" \/ fields[f].rows = <<>>
                        THEN /\ IsIn(f, uns'.keys) <=> IsIn(f, uns.keys)
                             /\ IsIn(f, uns.keys) => uns'.val[f] = uns.val[f]
                        ELSE /\ IsIn(f, uns'.keys)
                             /\ Range(uns'.val[f].names) = StoreGroups
                             /\ \A g \in StoreGroups :
                                   RowCount(uns', f, g) = RowCount(uns, f, g) + c.n]_vars
    /\ [](uns.present =>
            \A f, h \in AlwaysSupplied : \A g, k \in StoreGroups :
                RowCount(uns, f, g) = RowCount(uns, h, k))

\* Two calls of one row each, the first with adjusted p-values and the second
\* with an empty array for them: every field has two rows but the adjusted
\* p-values, which keep the one row of the first call.
C17_Witness ==
    /\ sret.op = "save" /\ sret.err = "none" /\ Len(hist) = 2
    /\ hist[1].pvals_adj = Array(<<<<0, 1>>>>)
    /\ hist[2].pvals_adj = Array(<<>>)
    /\ \A f \in AlwaysSupplied : \A g \in StoreGroups : RowCount(uns, f, g) = 2
    /\ uns.val["pvals_adj"].col["A"] = <<0>>
    /\ uns.val["pvals_adj"].col["B"] = <<1>>
    /\ ~IsIn("pts", uns.keys)

====
